---- MODULE Spec2Model ----
(***************************************************************************)
(* Model of the content-pipeline backend: the pipeline endpoint            *)
(* generate_content (api/pipeline.py), the Store it writes through         *)
(* (services/database_service.py), the generation client                   *)
(* (services/langchain_service.py) and the client endpoints                *)
(* (api/clients.py).                                                       *)
(*                                                                         *)
(* Text is modelled as sequences of one-character strings, so that len,    *)
(* strip, lower, split and "in" are computed the way Python computes them. *)
(* Exception messages and HTTP details are sequences of message parts     *)
(* (of words, for the messages of the generation client).                  *)
(*                                                                         *)
(* Spec is the pipeline endpoint with a concurrent delete_client, and      *)
(* SpecFair is Spec with every await of a request ending; SpecStore is the *)
(* client endpoints over the Store; SpecList is one GET /api/clients;      *)
(* SpecGen is one call of the generation client.                           *)
(***************************************************************************)
EXTENDS Integers, Sequences, FiniteSets, TLC

\* ------------------------------------------------------------------ bounds
\* number of concurrent POST /api/pipeline/generate requests
NumRequests == 2

\* ------------------------------------------------------------------- text
Whitespace == {" ", "\n"}

RECURSIVE LStrip(_)
LStrip(s) ==
    IF s = <<>> THEN s
    ELSE IF Head(s) \in Whitespace THEN LStrip(Tail(s)) ELSE s

RECURSIVE RStrip(_)
RStrip(s) ==
    IF s = <<>> THEN s
    ELSE IF s[Len(s)] \in Whitespace THEN RStrip(SubSeq(s, 1, Len(s) - 1)) ELSE s

\* str.strip()
Strip(s) == RStrip(LStrip(s))

LowerChar(c) ==
    CASE c = "W" -> "w"
      [] c = "G" -> "g"
      [] c = "M" -> "m"
      [] c = "S" -> "s"
      [] OTHER -> c

\* str.lower()
Lower(s) == [i \in 1..Len(s) |-> LowerChar(s[i])]

\* needle in hay  (the empty string is in every string)
Contains(hay, needle) ==
    \E i \in 0..(Len(hay) - Len(needle)) :
        SubSeq(hay, i + 1, i + Len(needle)) = needle

\* str.count(c): the number of positions of s that hold c
CountChar(s, c) == Cardinality({ i \in 1..Len(s) : s[i] = c })

\* str.split(): the maximal runs of non-whitespace characters, in order
RECURSIVE SplitFrom(_, _)
SplitFrom(s, cur) ==
    IF s = <<>> THEN (IF cur = <<>> THEN <<>> ELSE <<cur>>)
    ELSE IF Head(s) \in Whitespace
         THEN (IF cur = <<>> THEN <<>> ELSE <<cur>>) \o SplitFrom(Tail(s), <<>>)
         ELSE SplitFrom(Tail(s), Append(cur, Head(s)))

Split(s) == SplitFrom(s, <<>>)

\* [x for x in xs if keep(x)]
RECURSIVE FilterLong(_)
FilterLong(ws) ==
    IF ws = <<>> THEN <<>>
    ELSE (IF Len(Head(ws)) > 4 THEN <<Head(ws)>> ELSE <<>>) \o FilterLong(Tail(ws))

\* xs[:n]
Prefix(xs, n) == SubSeq(xs, 1, IF Len(xs) < n THEN Len(xs) ELSE n)


\* ------------------------------------------------------------- exceptions
\* An exception is [type, msg]; msg is the sequence of parts of str(e).
Exc(type, msg) == [type |-> type, msg |-> msg]

NoExc == Exc("none", <<>>)

\* mutant: the Store's exceptions do not derive from DatabaseError
BasesFlat(type) == {type, "Exception"}

\* The classes an exception type inherits from (itself included).
Bases(type) ==
    CASE type = "ClientNotFoundError" -> {"ClientNotFoundError", "DatabaseError", "Exception"}
      [] type = "DuplicateEmailError" -> {"DuplicateEmailError", "DatabaseError", "Exception"}
      [] type = "DatabaseError" -> {"DatabaseError", "Exception"}
      [] type = "LangChainError" -> {"LangChainError", "Exception"}
      [] type = "OpenRouterError" -> {"OpenRouterError", "Exception"}
      [] type = "ValidationError" -> {"ValidationError", "ValueError", "Exception"}
      [] type = "AttributeError" -> {"AttributeError", "Exception"}
      [] OTHER -> {type, "Exception"}

IsInstance(e, cls) == cls \in Bases(e.type)

\* -------------------------------------------------------- client profiles
ClientIds == {1, 2}

\* "Widgets", "Growth", "brand story": the texts of the stored profiles
Widgets == <<"W", "i", "d", "g", "e", "t", "s">>
Growth == <<"G", "r", "o", "w", "t", "h">>
BrandStory == <<"b", "r", "a", "n", "d", " ", "s", "t", "o", "r", "y">>
StoryFirst == <<"s", "t", "o", "r", "y", " ", "f", "i", "r", "s", "t">>

\* "Wes", "Meg": the names; "w@x", "m@x", "g@x": the email addresses
Wes == <<"W", "e", "s">>
Meg == <<"M", "e", "g">>
EmailW == <<"w", "@", "x">>
EmailM == <<"m", "@", "x">>
EmailG == <<"g", "@", "x">>

\* The row the clients table holds for client i before any request.
\* company is nullable (None, or Some(text) as defined below: <<>> or <<text>>);
\* updated_at is a time, 0 for a row never updated.
InitialProfile(i) ==
    [ id |-> i,
      name |-> IF i = 1 THEN Wes ELSE Meg,
      email |-> IF i = 1 THEN EmailW ELSE EmailM,
      company |-> IF i = 1 THEN <<Widgets>> ELSE <<>>,
      industry |-> IF i = 1 THEN Widgets ELSE Growth,
      services |-> IF i = 1 THEN <<Growth>> ELSE <<Widgets, Growth>>,
      positioning_statement |-> IF i = 1 THEN BrandStory ELSE StoryFirst,
      status |-> "active",
      updated_at |-> 0 ]

NoProfile == [id |-> 0]

\* ---------------------------------------------------------- pipeline runs
\* A nullable column or Optional value: None, or Some(v)
None == <<>>
Some(v) == <<v>>

\* create_pipeline_run's pipeline_data
PipelineData(client_id, input_data, stage) ==
    [ client_id |-> client_id,
      status |-> "pending",
      stage |-> stage,
      input_data |-> input_data,
      draft_content |-> None,
      quality_score |-> None,
      processing_time_seconds |-> None,
      ai_model_calls |-> None,
      error_message |-> None,
      completed_at |-> None ]

\* table.update(updates): the columns named in updates are overwritten
ApplyUpdates(row, updates) ==
    [k \in DOMAIN row |-> IF k \in DOMAIN updates THEN updates[k] ELSE row[k]]

\* mutant: the .eq("id", run_id) filter is missing
UpdateRowsNoFilter(table, run_id, updates) ==
    [i \in DOMAIN table |-> ApplyUpdates(table[i], updates)]

\* .update(updates).eq("id", run_id): every row with that id is updated
UpdateRows(table, run_id, updates) ==
    [i \in DOMAIN table |-> IF i = run_id THEN ApplyUpdates(table[i], updates) ELSE table[i]]


\* ------------------------------------------------------ generation client
\* mutant: the validators strip but do not reject a blank text
ContentGenerationRequestNoTrimCheck(client_profile, content_type, prompt, model) ==
    [ exc |-> NoExc,
      client_profile |-> client_profile,
      content_type |-> Strip(content_type),
      prompt |-> Strip(prompt),
      model |-> model ]

\* ContentGenerationRequest(...): Field(min_length=1) and the two validators.
\* Returns the validation error, or the request with both texts stripped.
ContentGenerationRequest(client_profile, content_type, prompt, model) ==
    IF Len(content_type) < 1 \/ Len(prompt) < 1
    THEN [exc |-> Exc("ValidationError", <<"String should have at least 1 character">>)]
    ELSE IF Strip(content_type) = <<>>
    THEN [exc |-> Exc("ValidationError", <<"Content type cannot be empty">>)]
    ELSE IF Strip(prompt) = <<>>
    THEN [exc |-> Exc("ValidationError", <<"Prompt cannot be empty">>)]
    ELSE [ exc |-> NoExc,
           client_profile |-> client_profile,
           content_type |-> Strip(content_type),
           prompt |-> Strip(prompt),
           model |-> model ]

default_model == "openai/gpt-4"

\* mutant: _call_openrouter has no except httpx.TimeoutException clause, so
\* a timeout is reported by the last clause with httpx's own (empty) text
CallOpenRouterNoTimeoutClause(reply) ==
    CASE reply.kind = "timeout" ->
            [exc |-> Exc("OpenRouterError",
                         <<"Unexpected", "error", "calling", "OpenRouter", "API", ":">>)]
      [] reply.kind = "connect" ->
            [exc |-> Exc("ConnectionError",
                         <<"Failed", "to", "connect", "to", "OpenRouter", "API">>)]
      [] reply.kind = "http" /\ reply.status_code # 200 ->
            [exc |-> Exc("OpenRouterError",
                         <<"OpenRouter", "API", "returned", "status",
                           ToString(reply.status_code), ":">> \o reply.text)]
      [] OTHER -> [exc |-> NoExc, json |-> reply.json]

\* The messages of the generation client are sequences of words, so that
\* "the message contains 'timed out'" is Contains(msg, <<"timed", "out">>).
\* _call_openrouter: what the POST to the gateway turns into; reply.text is
\* the response body, a sequence of words
CallOpenRouter(reply) ==
    CASE reply.kind = "timeout" ->
            [exc |-> Exc("TimeoutError",
                         <<"OpenRouter", "API", "request", "timed", "out">>)]
      [] reply.kind = "connect" ->
            [exc |-> Exc("ConnectionError",
                         <<"Failed", "to", "connect", "to", "OpenRouter", "API">>)]
      [] reply.kind = "http" /\ reply.status_code # 200 ->
            [exc |-> Exc("OpenRouterError",
                         <<"OpenRouter", "API", "returned", "status",
                           ToString(reply.status_code), ":">> \o reply.text)]
      [] OTHER -> [exc |-> NoExc, json |-> reply.json]

\* A JSON value that may be null: JStr(s) is the string s, JNull is null;
\* a JSON object is a record, and the null in place of an object is JNull.
JStr(s) == [str |-> s]
JNull == [null |-> TRUE]
IsNull(v) == "null" \in DOMAIN v

InvalidFormat(words) ==
    Exc("LangChainError", <<"Invalid", "response", "format", ":">> \o words)

\* None.get(...) and None.strip()
NoneTypeHasNo(attribute) ==
    Exc("AttributeError", <<"'NoneType'", "object", "has", "no", "attribute", attribute>>)

\* _extract_content_from_response: .get on a null first choice or a null
\* message and .strip on a null content raise AttributeError, which the
\* except (KeyError, IndexError, TypeError) clause does not catch
ExtractContent(response) ==
    LET choices == IF "choices" \in DOMAIN response THEN response.choices ELSE <<>>
    IN  IF choices = <<>> THEN [exc |-> InvalidFormat(<<"no", "choices", "found">>)]
        ELSE IF IsNull(choices[1]) THEN [exc |-> NoneTypeHasNo("'get'")]
        ELSE LET message == IF "message" \in DOMAIN choices[1]
                            THEN choices[1].message ELSE [none |-> 0]
             IN  IF IsNull(message) THEN [exc |-> NoneTypeHasNo("'get'")]
                 ELSE LET raw == IF "content" \in DOMAIN message
                                 THEN message.content ELSE JStr(<<>>)
                      IN  IF IsNull(raw) THEN [exc |-> NoneTypeHasNo("'strip'")]
                          ELSE IF Strip(raw.str) = <<>>
                          THEN [exc |-> InvalidFormat(<<"empty", "content">>)]
                          ELSE [exc |-> NoExc, content |-> Strip(raw.str)]

\* _estimate_cost, in units of 1e-8 dollars: (tokens / 1000) * rate
EstimateCost(usage, model) ==
    LET tokens == IF "total_tokens" \in DOMAIN usage THEN usage.total_tokens ELSE 0
        rate == CASE model = "openai/gpt-4" -> 3000
                  [] model = "openai/gpt-3.5-turbo" -> 200
                  [] model = "anthropic/claude-3-haiku" -> 25
                  [] model = "anthropic/claude-3-sonnet" -> 300
                  [] OTHER -> 1000
    IN  tokens * rate

Min(a, b) == IF a < b THEN a ELSE b
Max(a, b) == IF a > b THEN a ELSE b

\* mutant: a content under 50 characters loses nothing
LengthScoringNoShortPenalty(n) ==
    IF n < 50 THEN 0
    ELSE IF n > 2000 THEN -10
    ELSE IF 100 <= n /\ n <= 1000 THEN 10 ELSE 0

\* mutant: the good length earns 2.0
LengthScoringGoodLengthTwo(n) ==
    IF n < 50 THEN -20
    ELSE IF n > 2000 THEN -10
    ELSE IF 100 <= n /\ n <= 1000 THEN 20 ELSE 0

\* mutant: the good-length range leaves out its upper end
LengthScoringOpenEnd(n) ==
    IF n < 50 THEN -20
    ELSE IF n > 2000 THEN -10
    ELSE IF 100 <= n /\ n < 1000 THEN 10 ELSE 0

\* the length scoring of _calculate_quality_score, in tenths of a point
LengthScoring(n) ==
    IF n < 50 THEN -20
    ELSE IF n > 2000 THEN -10
    ELSE IF 100 <= n /\ n <= 1000 THEN 10 ELSE 0

\* mutant: the industry is looked up as written, not lower-cased
IndustryRelevanceAsWritten(content_lower, client_profile) ==
    Contains(content_lower, client_profile.industry)

\* client_profile.icp_profile.industry.lower() in content_lower
IndustryRelevance(content_lower, client_profile) ==
    Contains(content_lower, Lower(client_profile.industry))

\* the local score of _calculate_quality_score as it stands before the
\* return statement clamps it, in tenths of a point (5.0 is 50); every term
\* is a multiple of 0.5, which a float holds exactly
ScoreBeforeClamp(content, client_profile) ==
    LET n == Len(content)
        len_adj == LengthScoring(n)
        content_lower == Lower(content)
        industry_adj == IF IndustryRelevance(content_lower, client_profile)
                        THEN 10 ELSE 0
        services == [i \in DOMAIN client_profile.services |->
                        Lower(client_profile.services[i])]
        service_adj == IF \E i \in DOMAIN services : Contains(content_lower, services[i])
                       THEN 10 ELSE 0
        positioning_words == Split(Lower(client_profile.positioning_statement))
        key_words == Prefix(FilterLong(positioning_words), 3)
        positioning_adj == IF \E i \in DOMAIN key_words : Contains(content_lower, key_words[i])
                           THEN 5 ELSE 0
        period_adj == IF Contains(content, <<".">>) THEN 5 ELSE 0
        newline_adj == IF CountChar(content, "\n") >= 2 THEN 5 ELSE 0
        score == 50 + len_adj + industry_adj + service_adj + positioning_adj
                    + period_adj + newline_adj
    IN  score

\* _calculate_quality_score: return max(0.0, min(10.0, score))
CalculateQualityScore(content, client_profile) ==
    Max(0, Min(100, ScoreBeforeClamp(content, client_profile)))

\* The wrapping of an exception raised inside LangChainService.generate_content
WrapGenerationError(e) ==
    IF IsInstance(e, "OpenRouterError")
    THEN Exc("LangChainError", <<"OpenRouter", "API", "error", ":">> \o e.msg)
    ELSE IF IsInstance(e, "ConnectionError")
    THEN Exc("LangChainError", <<"Connection", "error", ":">> \o e.msg)
    ELSE IF IsInstance(e, "TimeoutError")
    THEN Exc("LangChainError", <<"Request", "timed", "out", ":">> \o e.msg)
    ELSE Exc("LangChainError",
             <<"Unexpected", "error", "during", "content", "generation", ":">> \o e.msg)

\* mutant: quality_score is declared without its range and its validator
ContentGenerationResponseNoRange(content, metadata, quality_score, processing_time) ==
    IF processing_time < 0
    THEN [exc |-> Exc("ValidationError",
                      <<"Input", "should", "be", "greater", "than", "or", "equal", "to", "0">>)]
    ELSE [ exc |-> NoExc,
           content |-> content,
           metadata |-> metadata,
           quality_score |-> quality_score,
           processing_time |-> processing_time ]

\* ContentGenerationResponse(...): Field(ge=0.0, le=10.0) and the validator
\* on quality_score, Field(ge=0.0) on processing_time. Returns the
\* validation error, or the response. Scores are in tenths of a point.
ContentGenerationResponse(content, metadata, quality_score, processing_time) ==
    IF quality_score < 0
    THEN [exc |-> Exc("ValidationError",
                      <<"Input", "should", "be", "greater", "than", "or", "equal", "to", "0">>)]
    ELSE IF quality_score > 100
    THEN [exc |-> Exc("ValidationError",
                      <<"Input", "should", "be", "less", "than", "or", "equal", "to", "10">>)]
    ELSE IF processing_time < 0
    THEN [exc |-> Exc("ValidationError",
                      <<"Input", "should", "be", "greater", "than", "or", "equal", "to", "0">>)]
    ELSE [ exc |-> NoExc,
           content |-> content,
           metadata |-> metadata,
           quality_score |-> quality_score,
           processing_time |-> processing_time ]

\* LangChainService.generate_content: the response, or the LangChainError.
\* elapsed is time.time() - start_time in tenths of a second.
GenerateContent(request, reply, elapsed) ==
    LET model == IF request.model # None THEN request.model[1] ELSE default_model
        api == CallOpenRouter(reply)
    IN  IF api.exc # NoExc THEN [exc |-> WrapGenerationError(api.exc)]
        ELSE LET ext == ExtractContent(api.json)
             IN  IF ext.exc # NoExc THEN [exc |-> WrapGenerationError(ext.exc)]
                 ELSE LET usage == IF "usage" \in DOMAIN api.json
                                   THEN api.json.usage ELSE [none |-> 0]
                          built == ContentGenerationResponse(
                                     ext.content,
                                     [ model |-> model,
                                       tokens_used |-> IF "total_tokens" \in DOMAIN usage
                                                       THEN usage.total_tokens ELSE 0,
                                       cost |-> EstimateCost(usage, model) ],
                                     CalculateQualityScore(ext.content, request.client_profile),
                                     elapsed)
                      IN  IF built.exc # NoExc THEN [exc |-> WrapGenerationError(built.exc)]
                          ELSE built


\* ------------------------------------------------------------------ Store
\* mutant: an empty result is not turned into ClientNotFoundError
GetClientByIdNoCheck(table, client_id, db_ok) ==
    IF ~db_ok
    THEN [exc |-> Exc("DatabaseError", <<"Failed to get client by ID">>)]
    ELSE [exc |-> NoExc,
          profile |-> IF client_id \in DOMAIN table THEN table[client_id]
                      ELSE InitialProfile(client_id)]

\* DatabaseService.get_client_by_id; db_ok is whether the Store call succeeds
GetClientById(table, client_id, db_ok) ==
    IF ~db_ok
    THEN [exc |-> Exc("DatabaseError", <<"Failed to get client by ID">>)]
    ELSE IF client_id \notin DOMAIN table
    THEN [exc |-> Exc("ClientNotFoundError", <<"Client with ID", "not found">>)]
    ELSE [exc |-> NoExc, profile |-> table[client_id]]

\* DatabaseService.delete_client
DeleteClientRow(table, client_id, db_ok) ==
    IF ~db_ok
    THEN [exc |-> Exc("DatabaseError", <<"Failed to delete client">>), table |-> table]
    ELSE IF client_id \notin DOMAIN table
    THEN [exc |-> Exc("ClientNotFoundError", <<"Client with ID", "not found">>),
          table |-> table]
    ELSE [exc |-> NoExc, table |-> [i \in DOMAIN table \ {client_id} |-> table[i]]]

\* mutant: a failed create_pipeline_run has inserted its row all the same
CreatePipelineRunInsertsThenRaises(table, client_id, input_data, stage, db_ok) ==
    IF ~db_ok
    THEN [exc |-> Exc("DatabaseError", <<"Failed to create pipeline run">>),
          table |-> Append(table, PipelineData(client_id, input_data, stage))]
    ELSE [ exc |-> NoExc,
           table |-> Append(table, PipelineData(client_id, input_data, stage)),
           id |-> Len(table) + 1 ]

\* DatabaseService.create_pipeline_run: the run's id is its position in the table
CreatePipelineRun(table, client_id, input_data, stage, db_ok) ==
    IF ~db_ok
    THEN [exc |-> Exc("DatabaseError", <<"Failed to create pipeline run">>), table |-> table]
    ELSE [ exc |-> NoExc,
           table |-> Append(table, PipelineData(client_id, input_data, stage)),
           id |-> Len(table) + 1 ]

\* DatabaseService.update_pipeline_run
UpdatePipelineRun(table, run_id, updates, db_ok) ==
    IF ~db_ok
    THEN [exc |-> Exc("DatabaseError", <<"Failed to update pipeline run">>), table |-> table]
    ELSE [ exc |-> NoExc,
           table |-> UpdateRows(table, run_id, updates),
           result |-> run_id \in DOMAIN table ]

NotFound == Exc("ClientNotFoundError", <<"Client with ID", "not found">>)

\* DatabaseService.get_client_by_email: None, or Some(the first row found)
GetClientByEmail(table, email, db_ok) ==
    IF ~db_ok
    THEN [exc |-> Exc("DatabaseError", <<"Failed to get client by email">>)]
    ELSE LET found == { i \in DOMAIN table : table[i].email = email }
         IN  [ exc |-> NoExc,
               profile |-> IF found = {} THEN None
                           ELSE Some(table[CHOOSE i \in found : \A j \in found : i <= j]) ]

\* mutant: create_client looks the email up but does not raise on a match
CheckDuplicateEmailNoRaise(table, email, db_ok) ==
    GetClientByEmail(table, email, db_ok).exc

\* create_client up to the insert: the lookup of the email and the
\* DuplicateEmailError; NoExc when create_client goes on to insert
CheckDuplicateEmail(table, email, db_ok) ==
    LET existing_client == GetClientByEmail(table, email, db_ok)
    IN  IF existing_client.exc # NoExc THEN existing_client.exc
        ELSE IF existing_client.profile # None
        THEN Exc("DuplicateEmailError", <<"Client with email", "already exists">>)
        ELSE NoExc

\* the client_data create_client inserts; now is datetime.now()
ClientData(intake_request, now) ==
    [ name |-> intake_request.name,
      email |-> intake_request.email,
      company |-> intake_request.company,
      industry |-> intake_request.industry,
      services |-> intake_request.services,
      positioning_statement |-> intake_request.positioning_statement,
      status |-> "active",
      updated_at |-> now ]

\* mutant: the clients table has a unique constraint on email, and an insert
\* of a stored email fails
InsertClientUniqueEmail(table, id, client_data, db_ok) ==
    IF ~db_ok \/ \E i \in DOMAIN table : table[i].email = client_data.email
    THEN [exc |-> Exc("DatabaseError", <<"Failed to create client">>), table |-> table]
    ELSE LET row == [k \in DOMAIN client_data \cup {"id"} |->
                        IF k = "id" THEN id ELSE client_data[k]]
         IN  [ exc |-> NoExc,
               table |-> [i \in DOMAIN table \cup {id} |-> IF i = id THEN row ELSE table[i]],
               profile |-> row ]

\* .insert(client_data).execute(): the Store gives the new row its id
InsertClient(table, id, client_data, db_ok) ==
    IF ~db_ok
    THEN [exc |-> Exc("DatabaseError", <<"Failed to create client">>), table |-> table]
    ELSE LET row == [k \in DOMAIN client_data \cup {"id"} |->
                        IF k = "id" THEN id ELSE client_data[k]]
         IN  [ exc |-> NoExc,
               table |-> [i \in DOMAIN table \cup {id} |-> IF i = id THEN row ELSE table[i]],
               profile |-> row ]

\* update_dict = {k: v for k, v in update_data.model_dump().items() if v is not None}
UpdateDict(update_data) ==
    [k \in { f \in DOMAIN update_data : update_data[f] # None } |-> update_data[k][1]]

\* mutant: update_client does not set updated_at
WithUpdatedAtUnset(update_data, now) == update_data

\* update_data["updated_at"] = datetime.now().isoformat()
WithUpdatedAt(update_data, now) ==
    [k \in DOMAIN update_data \cup {"updated_at"} |->
        IF k = "updated_at" THEN now ELSE update_data[k]]

\* DatabaseService.update_client: an update matching no row returns no data
UpdateClient(table, client_id, update_data, now, db_ok) ==
    IF ~db_ok
    THEN [exc |-> Exc("DatabaseError", <<"Failed to update client">>), table |-> table]
    ELSE IF client_id \notin DOMAIN table
    THEN [exc |-> NotFound, table |-> table]
    ELSE LET updated == [i \in DOMAIN table |->
                            IF i = client_id
                            THEN ApplyUpdates(table[i], WithUpdatedAt(update_data, now))
                            ELSE table[i]]
         IN  [exc |-> NoExc, table |-> updated, profile |-> updated[client_id]]

\* name.ilike.%search%, email.ilike.%search%, company.ilike.%search%
SearchMatches(row, search) ==
    \/ Contains(Lower(row.name), Lower(search))
    \/ Contains(Lower(row.email), Lower(search))
    \/ row.company # None /\ Contains(Lower(row.company[1]), Lower(search))

\* the ids of the rows the query of get_clients_list selects ("if search:"
\* adds the filter for a search that is neither None nor empty)
Selected(table, search) ==
    { i \in DOMAIN table :
        search = None \/ search[1] = <<>> \/ SearchMatches(table[i], search[1]) }

\* DatabaseService.get_clients_list. The query names no order: order is the
\* sequence in which the Store returns the selected rows.
GetClientsList(table, order, page, page_size, search, db_ok) ==
    IF ~db_ok
    THEN [exc |-> Exc("DatabaseError", <<"Failed to get clients list">>)]
    ELSE LET offset == (page - 1) * page_size
             last == Min(offset + page_size, Len(order))
         IN  [ exc |-> NoExc,
               clients |-> [j \in 1..(last - offset) |-> table[order[offset + j]].id],
               total |-> Cardinality(Selected(table, search)),
               page |-> page,
               page_size |-> page_size ]

\* --------------------------------------------------------- HTTP responses
HTTPException(status_code, detail) ==
    [status_code |-> status_code, detail |-> detail, body |-> None]

\* mutant: the answer's quality_score is taken from another field
PipelineResponseWrongScore(pipeline_run_id, generation_response) ==
    [ status_code |-> 201,
      detail |-> <<>>,
      body |-> Some([ pipeline_run_id |-> pipeline_run_id,
                      content |-> generation_response.content,
                      quality_score |-> generation_response.processing_time,
                      processing_time |-> generation_response.processing_time,
                      metadata |-> generation_response.metadata ]) ]

\* PipelineResponse(...), answered with 201
PipelineResponse(pipeline_run_id, generation_response) ==
    [ status_code |-> 201,
      detail |-> <<>>,
      body |-> Some([ pipeline_run_id |-> pipeline_run_id,
                      content |-> generation_response.content,
                      quality_score |-> generation_response.quality_score,
                      processing_time |-> generation_response.processing_time,
                      metadata |-> generation_response.metadata ]) ]

NoResponse == [status_code |-> 0, detail |-> <<>>, body |-> None]

\* the framework's answer to a request body that fails PipelineRequest's validation
RequestValidationResponse == HTTPException(422, <<"String should have at least 1 character">>)

\* the framework's answer to an exception that escapes the handler
UnhandledResponse == HTTPException(500, <<"Internal Server Error">>)

\* PipelineRequest: Field(..., min_length=1) on content_type and prompt
PipelineRequestValid(body) == Len(body.content_type) >= 1 /\ Len(body.prompt) >= 1

\* mutant: the completed write also overwrites the run's input snapshot
CompletedUpdatesClearsInput(generation_response) ==
    [ status |-> "completed",
      stage |-> "content_generation",
      input_data |-> [content_type |-> <<>>, prompt |-> <<>>, model |-> <<>>],
      draft_content |-> Some([ content |-> generation_response.content,
                               quality_score |-> generation_response.quality_score,
                               metadata |-> generation_response.metadata ]),
      quality_score |-> Some(generation_response.quality_score),
      processing_time_seconds |-> Some(generation_response.processing_time \div 10),
      ai_model_calls |-> Some([ model |-> generation_response.metadata.model,
                                tokens_used |-> generation_response.metadata.tokens_used,
                                cost |-> generation_response.metadata.cost ]),
      completed_at |-> Some("now()") ]

\* the updates generate_content writes on success
CompletedUpdates(generation_response) ==
    [ status |-> "completed",
      stage |-> "content_generation",
      draft_content |-> Some([ content |-> generation_response.content,
                               quality_score |-> generation_response.quality_score,
                               metadata |-> generation_response.metadata ]),
      quality_score |-> Some(generation_response.quality_score),
      processing_time_seconds |-> Some(generation_response.processing_time \div 10),
      ai_model_calls |-> Some([ model |-> generation_response.metadata.model,
                                tokens_used |-> generation_response.metadata.tokens_used,
                                cost |-> generation_response.metadata.cost ]),
      completed_at |-> Some("now()") ]

\* mutant: the failed write-back records the error but leaves the status as
\* it is
FailedUpdatesNoStatus(e) ==
    [ error_message |-> Some(e.msg),
      completed_at |-> Some("now()") ]

\* mutant: the failed write-back leaves the error message out
FailedUpdatesNoMessage(e) ==
    [ status |-> "failed",
      completed_at |-> Some("now()") ]

\* the updates generate_content writes in its LangChainError and Exception clauses
FailedUpdates(e) ==
    [ status |-> "failed",
      error_message |-> Some(e.msg),
      completed_at |-> Some("now()") ]

\* mutant: generate_content has no except DatabaseError clause
ExceptClauseNoDatabaseClause(e) ==
    IF IsInstance(e, "LangChainError") THEN "LangChainError" ELSE "Exception"

\* which except clause of generate_content catches e (the first that matches)
ExceptClause(e) ==
    IF IsInstance(e, "DatabaseError") THEN "DatabaseError"
    ELSE IF IsInstance(e, "LangChainError") THEN "LangChainError"
    ELSE "Exception"

\* mutant: the except Exception clause reports the exception's text, as the
\* other two clauses do
PipelineErrorResponseLeaksMessage(e) ==
    CASE ExceptClause(e) = "DatabaseError" ->
            HTTPException(500, <<"Database error">> \o e.msg)
      [] ExceptClause(e) = "LangChainError" ->
            HTTPException(500, <<"Content generation error">> \o e.msg)
      [] OTHER -> HTTPException(500, <<"An internal server error occurred">> \o e.msg)

\* the HTTPException each except clause of generate_content raises
PipelineErrorResponse(e) ==
    CASE ExceptClause(e) = "DatabaseError" ->
            HTTPException(500, <<"Database error">> \o e.msg)
      [] ExceptClause(e) = "LangChainError" ->
            HTTPException(500, <<"Content generation error">> \o e.msg)
      [] OTHER -> HTTPException(500, <<"An internal server error occurred">>)

\* the HTTPException create_client_intake raises for e
IntakeErrorResponse(e) ==
    IF IsInstance(e, "DuplicateEmailError") THEN HTTPException(409, e.msg)
    ELSE IF IsInstance(e, "DatabaseError")
    THEN HTTPException(500, <<"Database error">> \o e.msg)
    ELSE HTTPException(500, <<"An internal server error occurred">>)

\* mutant: the except DatabaseError clause comes first, as in the pipeline
\* endpoint
ClientErrorResponseDatabaseFirst(e) ==
    IF IsInstance(e, "DatabaseError")
    THEN HTTPException(500, <<"Database error">> \o e.msg)
    ELSE IF IsInstance(e, "ClientNotFoundError") THEN HTTPException(404, e.msg)
    ELSE HTTPException(500, <<"An internal server error occurred">>)

\* the HTTPException get_client, update_client_profile and
\* delete_client_profile raise for e
ClientErrorResponse(e) ==
    IF IsInstance(e, "ClientNotFoundError") THEN HTTPException(404, e.msg)
    ELSE IF IsInstance(e, "DatabaseError")
    THEN HTTPException(500, <<"Database error">> \o e.msg)
    ELSE HTTPException(500, <<"An internal server error occurred">>)

\* the HTTPException get_clients raises for e
ListErrorResponse(e) ==
    IF IsInstance(e, "DatabaseError")
    THEN HTTPException(500, <<"Database error">> \o e.msg)
    ELSE HTTPException(500, <<"An internal server error occurred">>)

\* the answer of a client endpoint: what it raised, or its status and body
Answer(endpoint, http) ==
    [ endpoint |-> endpoint, status_code |-> http.status_code,
      detail |-> http.detail, body |-> http.body ]

Success(status_code, body) == [status_code |-> status_code, detail |-> <<>>, body |-> body]

\* ------------------------------------------------------------------ state
VARIABLES
    clients,            \* the Store's clients table: client id -> row
    runs,               \* the Store's content_pipeline_runs table: run id -> row
    pc,                 \* where each generate_content request stands
    request,            \* the PipelineRequest body of each request
    client_profile,     \* generate_content's local client_profile
    pipeline_run_id,    \* generate_content's local pipeline_run_id (None: unbound)
    generation,         \* the generation_response, or the exception being handled
    response,           \* the HTTP response each request was answered with
    trace,              \* per request: the Store writes and gateway calls made so far
    deleted_since_load, \* the requests whose client was deleted after they loaded it
    next_client_id,     \* the id the Store gives the next inserted client
    create_call,        \* where each caller of create_client stands
    client_response,    \* the last answer of a client endpoint
    gen_input,          \* the arguments of a call of the generation client
    gen_output          \* what that call returned or raised

\* the variables of the client endpoints and of the generation client's calls
crud_vars == << next_client_id, create_call, client_response >>
gen_vars == << gen_input, gen_output >>

vars == << clients, runs, pc, request, client_profile, pipeline_run_id,
           generation, response, trace, deleted_since_load,
           next_client_id, create_call, client_response, gen_input, gen_output >>

Requests == 1..NumRequests

\* the request bodies the callers send: a well-formed one (whose content
\* type needs a strip), two that are blank after trimming, two with an
\* empty text
PipelineRequests ==
    { [client_id |-> 1, content_type |-> <<" ", "a">>, prompt |-> <<"p">>, model |-> None],
      [client_id |-> 1, content_type |-> <<" ">>, prompt |-> <<"p">>, model |-> None],
      [client_id |-> 2, content_type |-> <<"a">>, prompt |-> <<" ", "\n">>,
       model |-> Some("openai/gpt-3.5-turbo")],
      [client_id |-> 1, content_type |-> <<>>, prompt |-> <<"p">>, model |-> None],
      [client_id |-> 2, content_type |-> <<"a">>, prompt |-> <<>>, model |-> None] }

NoRequest == [client_id |-> 0, content_type |-> <<>>, prompt |-> <<>>, model |-> None]

\* what the gateway can answer
GatewayReplies ==
    { [kind |-> "timeout"],
      [kind |-> "connect"],
      [kind |-> "http", status_code |-> 500, text |-> <<"upstream", "error">>],
      [kind |-> "http", status_code |-> 200, json |-> [choices |-> <<>>]],
      [kind |-> "http", status_code |-> 200,
       json |-> [choices |-> << [message |-> [content |-> JStr(<<" ">>)]] >>]],
      [kind |-> "http", status_code |-> 200,
       json |-> [choices |-> << [message |-> [content |-> JStr(Widgets \o <<".", " ">>)]] >>,
                 usage |-> [total_tokens |-> 7]]] }

\* time.time() - start_time, in tenths of a second
ElapsedTimes == {15}

NoGeneration == [exc |-> NoExc]

Event(call, ok) == [call |-> call, ok |-> ok]

\* the callers of POST /api/clients/intake
Creators == {1, 2}

\* the Store numbers its rows: the ids after those of the initial rows
FirstFreeClientId == Cardinality(ClientIds) + 1

NoCreateCall == [pc |-> "idle"]

NoClientResponse == [endpoint |-> "none", status_code |-> 0, detail |-> <<>>, body |-> None]

NoGenInput == [kind |-> "none"]

NoGenOutput == [call |-> "none"]

Init ==
    /\ clients \in { [i \in S |-> InitialProfile(i)] : S \in SUBSET ClientIds }
    /\ runs = <<>>
    /\ pc = [r \in Requests |-> "idle"]
    /\ request = [r \in Requests |-> NoRequest]
    /\ client_profile = [r \in Requests |-> NoProfile]
    /\ pipeline_run_id = [r \in Requests |-> None]
    /\ generation = [r \in Requests |-> NoGeneration]
    /\ response = [r \in Requests |-> NoResponse]
    /\ trace = [r \in Requests |-> <<>>]
    /\ deleted_since_load = {}
    /\ next_client_id = FirstFreeClientId
    /\ create_call = [k \in Creators |-> NoCreateCall]
    /\ client_response = NoClientResponse
    /\ gen_input = NoGenInput
    /\ gen_output = NoGenOutput

\* ---------------------------------------------------------------- actions
\* An exception e raised inside generate_content's try block (generation
\* keeps it as the clause's e): the DatabaseError clause answers at once;
\* the other two clauses first write the run back (HandleException).
Raise(r, e) ==
    IF ExceptClause(e) = "DatabaseError"
    THEN /\ pc' = [pc EXCEPT ![r] = "done"]
         /\ response' = [response EXCEPT ![r] = PipelineErrorResponse(e)]
         /\ generation' = [generation EXCEPT ![r] = [exc |-> e]]
    ELSE /\ pc' = [pc EXCEPT ![r] = "except"]
         /\ generation' = [generation EXCEPT ![r] = [exc |-> e]]
         /\ response' = response

\* POST /api/pipeline/generate arrives; the body is validated as a PipelineRequest
Receive(r) ==
    /\ pc[r] = "idle"
    /\ \E body \in PipelineRequests :
        /\ request' = [request EXCEPT ![r] = body]
        /\ IF PipelineRequestValid(body)
           THEN /\ pc' = [pc EXCEPT ![r] = "get_client"]
                /\ response' = response
           ELSE /\ pc' = [pc EXCEPT ![r] = "done"]
                /\ response' = [response EXCEPT ![r] = RequestValidationResponse]
    /\ UNCHANGED << clients, runs, client_profile, pipeline_run_id, generation,
                    trace, deleted_since_load >>
    /\ UNCHANGED << crud_vars, gen_vars >>

\* mutant: the run is not created before the generation (the creation is
\* left for later)
GetClientThenGenerate(r) ==
    /\ pc[r] = "get_client"
    /\ \E db_ok \in BOOLEAN :
        LET got == GetClientById(clients, request[r].client_id, db_ok)
        IN  IF got.exc # NoExc
            THEN /\ Raise(r, got.exc)
                 /\ client_profile' = client_profile
            ELSE /\ client_profile' = [client_profile EXCEPT ![r] = got.profile]
                 /\ pc' = [pc EXCEPT ![r] = "generate"]
                 /\ UNCHANGED << generation, response >>
    /\ UNCHANGED << clients, runs, request, pipeline_run_id, trace, deleted_since_load >>
    /\ UNCHANGED << crud_vars, gen_vars >>

\* client_profile = await db_service.get_client_by_id(request.client_id)
GetClient(r) ==
    /\ pc[r] = "get_client"
    /\ \E db_ok \in BOOLEAN :
        LET got == GetClientById(clients, request[r].client_id, db_ok)
        IN  IF got.exc # NoExc
            THEN /\ Raise(r, got.exc)
                 /\ client_profile' = client_profile
            ELSE /\ client_profile' = [client_profile EXCEPT ![r] = got.profile]
                 /\ pc' = [pc EXCEPT ![r] = "create_run"]
                 /\ UNCHANGED << generation, response >>
    /\ UNCHANGED << clients, runs, request, pipeline_run_id, trace, deleted_since_load >>
    /\ UNCHANGED << crud_vars, gen_vars >>

\* the ContentGenerationRequest generate_content builds for request r
GenerationRequest(r) ==
    ContentGenerationRequest(client_profile[r], request[r].content_type,
                             request[r].prompt, request[r].model)

\* pipeline_run_id = await db_service.create_pipeline_run(...), then the
\* construction of the service and of the ContentGenerationRequest
CreateRun(r) ==
    /\ pc[r] = "create_run"
    /\ \E db_ok \in BOOLEAN :
        LET made == CreatePipelineRun(runs, request[r].client_id,
                        [ content_type |-> request[r].content_type,
                          prompt |-> request[r].prompt,
                          model |-> request[r].model ],
                        "content_generation", db_ok)
        IN  IF made.exc # NoExc
            THEN /\ Raise(r, made.exc)
                 /\ runs' = made.table
                 /\ UNCHANGED << pipeline_run_id, trace >>
            ELSE /\ runs' = made.table
                 /\ pipeline_run_id' = [pipeline_run_id EXCEPT ![r] = Some(made.id)]
                 /\ trace' = [trace EXCEPT ![r] = Append(@, Event("create_pipeline_run", TRUE))]
                 /\ IF GenerationRequest(r).exc # NoExc
                    THEN Raise(r, GenerationRequest(r).exc)
                    ELSE /\ pc' = [pc EXCEPT ![r] = "generate"]
                         /\ UNCHANGED << generation, response >>
    /\ deleted_since_load' = deleted_since_load \ {r}
    /\ UNCHANGED << clients, request, client_profile >>
    /\ UNCHANGED << crud_vars, gen_vars >>

\* mutant: the service keeps state between calls, and the score grows with
\* the number of runs stored when it is computed
GenerateScoreCountsRuns(r) ==
    /\ pc[r] = "generate"
    /\ \E reply \in GatewayReplies, elapsed \in ElapsedTimes :
        LET got == GenerateContent(GenerationRequest(r), reply, elapsed)
        IN  IF got.exc # NoExc
            THEN Raise(r, got.exc)
            ELSE /\ generation' = [generation EXCEPT ![r] =
                        [got EXCEPT !.quality_score = Min(100, @ + 5 * Len(runs))]]
                 /\ pc' = [pc EXCEPT ![r] = "update_run"]
                 /\ response' = response
    /\ \E ok \in BOOLEAN :
        /\ ok = (generation'[r].exc = NoExc)
        /\ trace' = [trace EXCEPT ![r] = Append(@, Event("call_openrouter", ok))]
    /\ UNCHANGED << clients, runs, request, client_profile, pipeline_run_id,
                    deleted_since_load >>
    /\ UNCHANGED << crud_vars, gen_vars >>

\* generation_response = await langchain_service.generate_content(generation_request)
Generate(r) ==
    /\ pc[r] = "generate"
    /\ \E reply \in GatewayReplies, elapsed \in ElapsedTimes :
        LET got == GenerateContent(GenerationRequest(r), reply, elapsed)
        IN  IF got.exc # NoExc
            THEN Raise(r, got.exc)
            ELSE /\ generation' = [generation EXCEPT ![r] = got]
                 /\ pc' = [pc EXCEPT ![r] = "update_run"]
                 /\ response' = response
    /\ \E ok \in BOOLEAN :
        /\ ok = (generation'[r].exc = NoExc)
        /\ trace' = [trace EXCEPT ![r] = Append(@, Event("call_openrouter", ok))]
    /\ UNCHANGED << clients, runs, request, client_profile, pipeline_run_id,
                    deleted_since_load >>
    /\ UNCHANGED << crud_vars, gen_vars >>

\* await db_service.update_pipeline_run(... "completed" ...), then the response
Complete(r) ==
    /\ pc[r] = "update_run"
    /\ \E db_ok \in BOOLEAN :
        LET done == UpdatePipelineRun(runs, pipeline_run_id[r][1],
                                      CompletedUpdates(generation[r]), db_ok)
        IN  /\ runs' = done.table
            /\ trace' = [trace EXCEPT ![r] =
                            Append(@, Event("update_pipeline_run", done.exc = NoExc))]
            /\ IF done.exc # NoExc
               THEN Raise(r, done.exc)
               ELSE /\ pc' = [pc EXCEPT ![r] = "done"]
                    /\ response' = [response EXCEPT ![r] =
                            PipelineResponse(pipeline_run_id[r][1], generation[r])]
                    /\ generation' = generation
    /\ UNCHANGED << clients, request, client_profile, pipeline_run_id,
                    deleted_since_load >>
    /\ UNCHANGED << crud_vars, gen_vars >>

\* mutant: a failed generation is tried a second time before the failure is
\* written back and reported
HandleExceptionRetriesOnce(r) ==
    /\ pc[r] = "except"
    /\ IF /\ ExceptClause(generation[r].exc) = "LangChainError"
          /\ Cardinality({ i \in DOMAIN trace[r] : trace[r][i].call = "call_openrouter" }) < 2
       THEN /\ pc' = [pc EXCEPT ![r] = "generate"]
            /\ UNCHANGED << runs, trace, response >>
       ELSE /\ pc' = [pc EXCEPT ![r] = "done"]
            /\ IF pipeline_run_id[r] # None
               THEN \E db_ok \in BOOLEAN :
                    LET done == UpdatePipelineRun(runs, pipeline_run_id[r][1],
                                                  FailedUpdates(generation[r].exc), db_ok)
                    IN  /\ runs' = done.table
                        /\ trace' = [trace EXCEPT ![r] =
                                Append(@, Event("update_pipeline_run", done.exc = NoExc))]
                        /\ response' = [response EXCEPT ![r] =
                                IF done.exc # NoExc THEN UnhandledResponse
                                ELSE PipelineErrorResponse(generation[r].exc)]
               ELSE /\ response' = [response EXCEPT ![r] =
                                        PipelineErrorResponse(generation[r].exc)]
                    /\ UNCHANGED << runs, trace >>
    /\ UNCHANGED << clients, request, client_profile, pipeline_run_id, generation,
                    deleted_since_load >>
    /\ UNCHANGED << crud_vars, gen_vars >>

\* the LangChainError and Exception clauses of generate_content: the failed
\* write-back if pipeline_run_id is bound, then the HTTPException
HandleException(r) ==
    /\ pc[r] = "except"
    /\ pc' = [pc EXCEPT ![r] = "done"]
    /\ IF pipeline_run_id[r] # None
       THEN \E db_ok \in BOOLEAN :
            LET done == UpdatePipelineRun(runs, pipeline_run_id[r][1],
                                          FailedUpdates(generation[r].exc), db_ok)
            IN  /\ runs' = done.table
                /\ trace' = [trace EXCEPT ![r] =
                                Append(@, Event("update_pipeline_run", done.exc = NoExc))]
                /\ response' = [response EXCEPT ![r] =
                        IF done.exc # NoExc THEN UnhandledResponse
                        ELSE PipelineErrorResponse(generation[r].exc)]
       ELSE /\ response' = [response EXCEPT ![r] = PipelineErrorResponse(generation[r].exc)]
            /\ UNCHANGED << runs, trace >>
    /\ UNCHANGED << clients, request, client_profile, pipeline_run_id, generation,
                    deleted_since_load >>
    /\ UNCHANGED << crud_vars, gen_vars >>

\* mutant: the delete reaches the client's runs, whose client_id is cleared
DeleteClientClearsRuns(client_id) ==
    /\ \E db_ok \in BOOLEAN :
        clients' = DeleteClientRow(clients, client_id, db_ok).table
    /\ clients' # clients
    /\ runs' = [i \in DOMAIN runs |->
                    IF runs[i].client_id = client_id
                    THEN [runs[i] EXCEPT !.client_id = 0] ELSE runs[i]]
    /\ deleted_since_load' = deleted_since_load \cup
            { r \in Requests : pc[r] = "create_run" /\ request[r].client_id = client_id }
    /\ UNCHANGED << pc, request, client_profile, pipeline_run_id, generation,
                    response, trace >>
    /\ UNCHANGED << crud_vars, gen_vars >>

\* a concurrent caller's await db_service.delete_client(client_id)
DeleteClient(client_id) ==
    /\ \E db_ok \in BOOLEAN :
        clients' = DeleteClientRow(clients, client_id, db_ok).table
    /\ clients' # clients
    /\ deleted_since_load' = deleted_since_load \cup
            { r \in Requests : pc[r] = "create_run" /\ request[r].client_id = client_id }
    /\ UNCHANGED << runs, pc, request, client_profile, pipeline_run_id, generation,
                    response, trace >>
    /\ UNCHANGED << crud_vars, gen_vars >>

Next ==
    \/ \E r \in Requests : Receive(r)
    \/ \E r \in Requests : GetClient(r)
    \/ \E r \in Requests : CreateRun(r)
    \/ \E r \in Requests : Generate(r)
    \/ \E r \in Requests : Complete(r)
    \/ \E r \in Requests : HandleException(r)
    \/ \E c \in ClientIds : DeleteClient(c)

Spec == Init /\ [][Next]_vars

\* Every await of generate_content returns or raises in the end (the Store
\* calls and the gateway call, whose client has a 30 s timeout), and the event
\* loop resumes a coroutine whose await has ended: a request that has been
\* received takes its next step. Nothing obliges a caller to send a request
\* or to delete a client.
Fairness ==
    \A r \in Requests :
        /\ WF_vars(GetClient(r))
        /\ WF_vars(CreateRun(r))
        /\ WF_vars(Generate(r))
        /\ WF_vars(Complete(r))
        /\ WF_vars(HandleException(r))

SpecFair == Spec /\ Fairness

\* ------------------------------------- calls of the generation client
\* The generation client keeps no state between calls: each behaviour of
\* SpecGen is one call, of _calculate_quality_score, of generate_content or
\* of the ContentGenerationResponse constructor, on arguments drawn by Init.

Tech == <<"t", "e", "c", "h">>
Brand == <<"b", "r", "a", "n", "d">>
Story == <<"s", "t", "o", "r", "y">>
First == <<"f", "i", "r", "s", "t">>
Plans == <<"p", "l", "a", "n", "s">>
Make == <<"M", "a", "k", "e">>

\* "We Make brand story first plans"
LongPositioning ==
    <<"W", "e", " ">> \o Make \o <<" ">> \o Brand \o <<" ">> \o Story \o <<" ">>
        \o First \o <<" ">> \o Plans

\* The profiles the score is computed for, each with the words a content is
\* built from: a word among the first three positioning words longer than
\* four characters, one of the later long words, one of the short words.
ScoreProfiles ==
    { [ profile |-> InitialProfile(1),
        key_word |-> Story, late_word |-> <<>>, short_word |-> <<>> ],
      [ profile |-> [ InitialProfile(2) EXCEPT !.industry = Tech,
                                                !.positioning_statement = LongPositioning ],
        key_word |-> First, late_word |-> Plans, short_word |-> Make ] }

\* what a content is made of: whether it names the industry, which service
\* (0: none), which positioning word, whether it has a period, how many
\* newlines
ContentFeatures ==
    [ industry : BOOLEAN, service : 0..2,
      keyword : {"none", "key", "late", "short"},
      period : BOOLEAN, newlines : 0..2 ]

FeaturesOf(c) ==
    { f \in ContentFeatures :
        /\ f.service <= Len(c.profile.services)
        /\ f.keyword = "late" => c.late_word # <<>>
        /\ f.keyword = "short" => c.short_word # <<>> }

Plain == [industry |-> FALSE, service |-> 0, keyword |-> "none",
          period |-> FALSE, newlines |-> 0]
Rich == [industry |-> TRUE, service |-> 1, keyword |-> "key",
         period |-> TRUE, newlines |-> 2]

\* the content with features f for profile c, filled with "x" up to length n
MakeContent(c, f, n) ==
    LET base ==
            (IF f.industry THEN c.profile.industry \o <<" ">> ELSE <<>>)
         \o (IF f.service = 0 THEN <<>> ELSE c.profile.services[f.service] \o <<" ">>)
         \o (CASE f.keyword = "key" -> c.key_word
               [] f.keyword = "late" -> c.late_word
               [] f.keyword = "short" -> c.short_word
               [] OTHER -> <<>>)
         \o (IF f.period THEN <<".">> ELSE <<>>)
         \o [i \in 1..f.newlines |-> "\n"]
    IN  base \o [i \in 1..(n - Len(base)) |-> "x"]

\* the content lengths around the thresholds of the length scoring (0: no fill)
ShortLengths == {0, 49, 50, 99, 100}
LongLengths == {1000, 1001, 2000, 2001}

\* "Widgets help you grow. \n\nMore widgets."
WidgetsHelpYouGrow ==
    Widgets \o <<" ", "h", "e", "l", "p", " ", "y", "o", "u", " ", "g", "r", "o", "w",
                 ".", " ", "\n", "\n", "M", "o", "r", "e", " ",
                 "w", "i", "d", "g", "e", "t", "s", ".">>

ScoreInput(profile, features, content) ==
    [kind |-> "score", profile |-> profile, features |-> features, content |-> content]

\* every make-up at the short lengths, the plainest and the richest at the
\* long ones
ScoreInputsOf(c) ==
    { ScoreInput(c.profile, f, MakeContent(c, f, n)) :
          f \in FeaturesOf(c), n \in ShortLengths }
    \cup { ScoreInput(c.profile, f, MakeContent(c, f, n)) :
              f \in {Plain, Rich}, n \in LongLengths }

WidgetsHelpYouGrowInput ==
    ScoreInput(InitialProfile(1),
               [industry |-> TRUE, service |-> 0, keyword |-> "none",
                period |-> TRUE, newlines |-> 2],
               WidgetsHelpYouGrow)

\* "Short post.", the content of test_calculate_quality_score_short_content
ShortPost == <<"S", "h", "o", "r", "t", " ", "p", "o", "s", "t", ".">>

ShortPostInput ==
    ScoreInput(InitialProfile(1),
               [industry |-> FALSE, service |-> 0, keyword |-> "none",
                period |-> TRUE, newlines |-> 0],
               ShortPost)

ScoreInputs ==
    UNION { ScoreInputsOf(c) : c \in ScoreProfiles }
        \cup {WidgetsHelpYouGrowInput, ShortPostInput}

\* a first choice carrying the given message content
Choice(content) == [message |-> [role |-> "assistant", content |-> content]]

\* the gateway's answers to one call: the failures of the transport, the
\* statuses other than 200, and the 200 bodies with and without a content
GenerationReplies ==
    GatewayReplies \cup
    { [kind |-> "http", status_code |-> 404, text |-> <<"no", "such", "model">>],
      [kind |-> "http", status_code |-> 302, text |-> <<"moved">>],
      [kind |-> "http", status_code |-> 204, text |-> <<>>],
      [kind |-> "http", status_code |-> 200, json |-> [usage |-> [total_tokens |-> 0]]],
      [kind |-> "http", status_code |-> 200, json |-> [choices |-> << JNull >>]],
      [kind |-> "http", status_code |-> 200, json |-> [choices |-> << [index |-> 0] >>]],
      [kind |-> "http", status_code |-> 200, json |-> [choices |-> << [message |-> JNull] >>]],
      [kind |-> "http", status_code |-> 200,
       json |-> [choices |-> << [message |-> [role |-> "assistant"]] >>]],
      [kind |-> "http", status_code |-> 200, json |-> [choices |-> << Choice(JNull) >>]],
      [kind |-> "http", status_code |-> 200, json |-> [choices |-> << Choice(JStr(<<>>)) >>]],
      [kind |-> "http", status_code |-> 200,
       json |-> [choices |-> << Choice(JStr(<<" ", "\n", " ">>)) >>]],
      [kind |-> "http", status_code |-> 200,
       json |-> [choices |-> << Choice(JStr(<<"\n">> \o WidgetsHelpYouGrow \o <<" ">>)) >>,
                 usage |-> [total_tokens |-> 12]]] }

GenerateInputs ==
    { [kind |-> "generate",
       request |-> ContentGenerationRequest(c.profile, <<"a">>, <<"p">>, model),
       reply |-> reply, elapsed |-> elapsed] :
          c \in ScoreProfiles, model \in {None, Some("openai/gpt-3.5-turbo")},
          reply \in GenerationReplies, elapsed \in ElapsedTimes }

\* quality scores (tenths of a point) and processing times (tenths of a
\* second) a ContentGenerationResponse is constructed with
ResponseInputs ==
    { [kind |-> "response", content |-> Widgets,
       quality_score |-> q, processing_time |-> t] :
          q \in {-5, 0, 50, 100, 105}, t \in {-1, 0, 15} }

InitGen ==
    /\ clients = [i \in ClientIds |-> InitialProfile(i)]
    /\ runs = <<>>
    /\ pc = [r \in Requests |-> "idle"]
    /\ request = [r \in Requests |-> NoRequest]
    /\ client_profile = [r \in Requests |-> NoProfile]
    /\ pipeline_run_id = [r \in Requests |-> None]
    /\ generation = [r \in Requests |-> NoGeneration]
    /\ response = [r \in Requests |-> NoResponse]
    /\ trace = [r \in Requests |-> <<>>]
    /\ deleted_since_load = {}
    /\ next_client_id = FirstFreeClientId
    /\ create_call = [k \in Creators |-> NoCreateCall]
    /\ client_response = NoClientResponse
    /\ gen_input \in ScoreInputs \cup GenerateInputs \cup ResponseInputs
    /\ gen_output = NoGenOutput

\* the variables a call of the generation client leaves alone
store_and_pipeline_vars ==
    << clients, runs, pc, request, client_profile, pipeline_run_id, generation,
       response, trace, deleted_since_load, crud_vars >>

\* score = self._calculate_quality_score(content, client_profile)
Score ==
    /\ gen_input.kind = "score" /\ gen_output = NoGenOutput
    /\ gen_output' = [call |-> "score",
                      before_clamp |-> ScoreBeforeClamp(gen_input.content, gen_input.profile),
                      score |-> CalculateQualityScore(gen_input.content, gen_input.profile)]
    /\ UNCHANGED << gen_input, store_and_pipeline_vars >>

\* await langchain_service.generate_content(request)
GenerateCall ==
    /\ gen_input.kind = "generate" /\ gen_output = NoGenOutput
    /\ gen_output' = [call |-> "generate",
                      result |-> GenerateContent(gen_input.request, gen_input.reply,
                                                 gen_input.elapsed)]
    /\ UNCHANGED << gen_input, store_and_pipeline_vars >>

\* ContentGenerationResponse(content=..., quality_score=..., processing_time=...)
BuildResponse ==
    /\ gen_input.kind = "response" /\ gen_output = NoGenOutput
    /\ gen_output' = [call |-> "response",
                      result |-> ContentGenerationResponse(
                                    gen_input.content, [model |-> default_model],
                                    gen_input.quality_score, gen_input.processing_time)]
    /\ UNCHANGED << gen_input, store_and_pipeline_vars >>

NextGen == Score \/ GenerateCall \/ BuildResponse

SpecGen == InitGen /\ [][NextGen]_vars

\* ------------------------------------------------- the client endpoints
\* the highest id the Store gives a client
MaxClientId == 4

\* the client ids the callers name, in the Store or not
StoreClientIds == 1..MaxClientId

\* datetime.now() at a create or an update
Timestamps == {1}

\* the intake forms: one with the email of client 1, one with a new email
ClientIntakeRequests ==
    { [ name |-> Wes, email |-> EmailW, company |-> None, industry |-> Tech,
        services |-> <<Growth>>, positioning_statement |-> BrandStory ],
      [ name |-> Meg, email |-> EmailG, company |-> Some(Growth), industry |-> Widgets,
        services |-> <<Widgets>>, positioning_statement |-> StoryFirst ] }

\* the ClientProfileUpdate bodies: a new email (that of client 1), a new
\* status and positioning statement, and no field at all
ClientProfileUpdates ==
    { [ name |-> None, email |-> Some(EmailW), positioning_statement |-> None,
        status |-> None ],
      [ name |-> None, email |-> None, positioning_statement |-> Some(StoryFirst),
        status |-> Some("inactive") ],
      [ name |-> None, email |-> None, positioning_statement |-> None, status |-> None ] }

\* a run of client 1, stored before any call
StoredRun ==
    PipelineData(1, [content_type |-> <<"a">>, prompt |-> <<"p">>, model |-> None],
                 "content_generation")

InitStore ==
    /\ clients \in { [i \in S |-> InitialProfile(i)] : S \in SUBSET ClientIds }
    /\ runs = << StoredRun >>
    /\ pc = [r \in Requests |-> "idle"]
    /\ request = [r \in Requests |-> NoRequest]
    /\ client_profile = [r \in Requests |-> NoProfile]
    /\ pipeline_run_id = [r \in Requests |-> None]
    /\ generation = [r \in Requests |-> NoGeneration]
    /\ response = [r \in Requests |-> NoResponse]
    /\ trace = [r \in Requests |-> <<>>]
    /\ deleted_since_load = {}
    /\ next_client_id = FirstFreeClientId
    /\ create_call = [k \in Creators |-> NoCreateCall]
    /\ client_response = NoClientResponse
    /\ gen_input = NoGenInput
    /\ gen_output = NoGenOutput

\* the variables the client endpoints leave alone
pipeline_and_gen_vars ==
    << runs, pc, request, client_profile, pipeline_run_id, generation, response,
       trace, deleted_since_load, gen_vars >>

\* the create_client calls that have looked their email up and not yet inserted
Inserting == { k \in Creators : create_call[k].pc = "insert" }

\* POST /api/clients/intake, up to the insert: create_client looks the email
\* up; the endpoint answers at once if the lookup finds it or fails
CreateClientLookupOf(k, intake_request, db_ok) ==
    /\ create_call[k].pc = "idle"
    /\ next_client_id + Cardinality(Inserting) <= MaxClientId
    /\ LET e == CheckDuplicateEmail(clients, intake_request.email, db_ok)
       IN  IF e # NoExc
           THEN /\ client_response' = Answer("intake", IntakeErrorResponse(e))
                /\ create_call' = create_call
           ELSE /\ create_call' = [create_call EXCEPT ![k] =
                       [pc |-> "insert", intake_request |-> intake_request]]
                /\ client_response' = client_response
    /\ UNCHANGED << clients, next_client_id, pipeline_and_gen_vars >>

CreateClientLookup(k) ==
    \E intake_request \in ClientIntakeRequests, db_ok \in BOOLEAN :
        CreateClientLookupOf(k, intake_request, db_ok)

\* the rest of create_client: the insert, then the endpoint's answer
CreateClientInsertOf(k, now, db_ok) ==
    /\ create_call[k].pc = "insert"
    /\ create_call' = [create_call EXCEPT ![k] = NoCreateCall]
    /\ LET made == InsertClient(clients, next_client_id,
                                ClientData(create_call[k].intake_request, now), db_ok)
       IN  /\ clients' = made.table
           /\ IF made.exc # NoExc
              THEN /\ client_response' = Answer("intake", IntakeErrorResponse(made.exc))
                   /\ next_client_id' = next_client_id
              ELSE /\ client_response' =
                        Answer("intake", Success(201, Some([id |-> made.profile.id])))
                   /\ next_client_id' = next_client_id + 1
    /\ UNCHANGED pipeline_and_gen_vars

CreateClientInsert(k) ==
    \E now \in Timestamps, db_ok \in BOOLEAN : CreateClientInsertOf(k, now, db_ok)

\* PUT /api/clients/{client_id}
UpdateClientProfileOf(client_id, update_data, now, db_ok) ==
    /\ LET done == UpdateClient(clients, client_id, UpdateDict(update_data), now, db_ok)
       IN  /\ clients' = done.table
           /\ client_response' =
                 IF done.exc # NoExc THEN Answer("update", ClientErrorResponse(done.exc))
                 ELSE Answer("update", Success(200, Some([id |-> done.profile.id])))
    /\ UNCHANGED << next_client_id, create_call, pipeline_and_gen_vars >>

UpdateClientProfile(client_id) ==
    \E update_data \in ClientProfileUpdates, now \in Timestamps, db_ok \in BOOLEAN :
        UpdateClientProfileOf(client_id, update_data, now, db_ok)

\* DELETE /api/clients/{client_id}
DeleteClientProfileOf(client_id, db_ok) ==
    /\ LET done == DeleteClientRow(clients, client_id, db_ok)
       IN  /\ clients' = done.table
           /\ client_response' =
                 IF done.exc # NoExc THEN Answer("delete", ClientErrorResponse(done.exc))
                 ELSE Answer("delete", Success(204, None))
    /\ UNCHANGED << next_client_id, create_call, pipeline_and_gen_vars >>

DeleteClientProfile(client_id) ==
    \E db_ok \in BOOLEAN : DeleteClientProfileOf(client_id, db_ok)

NextStore ==
    \/ \E k \in Creators : CreateClientLookup(k)
    \/ \E k \in Creators : CreateClientInsert(k)
    \/ \E c \in StoreClientIds : UpdateClientProfile(c)
    \/ \E c \in StoreClientIds : DeleteClientProfile(c)

SpecStore == InitStore /\ [][NextStore]_vars

\* ------------------------------------------------------ the client list
\* get_clients_list only reads the Store: each behaviour of SpecList is one
\* GET /api/clients on a table drawn by Init.

Letters == <<"a", "b", "c", "d", "e", "f", "g", "h", "i", "j", "k", "l">>

\* the i-th client created: the odd ones like client 1, the even ones like
\* client 2, each with an email of its own
ListedProfile(i) ==
    [ InitialProfile(IF i % 2 = 1 THEN 1 ELSE 2) EXCEPT
        !.id = i, !.email = <<Letters[i], "@", "x">> ]

\* the ids of the stored clients: none, three, three after a delete, twelve
ListedIds == { {}, {1, 2, 3}, {1, 3, 4}, 1..12 }

\* ids in increasing order, which is the order of creation
RECURSIVE CreationOrder(_)
CreationOrder(ids) ==
    IF ids = {} THEN <<>>
    ELSE LET first == CHOOSE i \in ids : \A j \in ids : i <= j
         IN  <<first>> \o CreationOrder(ids \ {first})

\* order with its j-th element moved to the end
MoveToEnd(order, j) ==
    SubSeq(order, 1, j - 1) \o SubSeq(order, j + 1, Len(order)) \o <<order[j]>>

\* Orders in which the Store may return the rows of a select that names no
\* order: the order of creation, and that order with one row moved to the
\* end (where the Store puts the new version of an updated row).
StoreOrders(ids) ==
    {CreationOrder(ids)} \cup
    { MoveToEnd(CreationOrder(ids), j) : j \in 1..Cardinality(ids) }

\* the query parameters: page >= 1, 1 <= page_size <= 100, a search or none
Pages == 1..3
PageSizes == {1, 2, 5, 100}
Searches == { None, Some(<<>>), Some(<<"w">>), Some(<<"M", "e">>) }

InitList ==
    /\ clients \in { [i \in ids |-> ListedProfile(i)] : ids \in ListedIds }
    /\ runs = <<>>
    /\ pc = [r \in Requests |-> "idle"]
    /\ request = [r \in Requests |-> NoRequest]
    /\ client_profile = [r \in Requests |-> NoProfile]
    /\ pipeline_run_id = [r \in Requests |-> None]
    /\ generation = [r \in Requests |-> NoGeneration]
    /\ response = [r \in Requests |-> NoResponse]
    /\ trace = [r \in Requests |-> <<>>]
    /\ deleted_since_load = {}
    /\ next_client_id = FirstFreeClientId
    /\ create_call = [k \in Creators |-> NoCreateCall]
    /\ client_response = NoClientResponse
    /\ gen_input = NoGenInput
    /\ gen_output = NoGenOutput

\* the answer of GET /api/clients, with the query it answers
ListAnswer(http, query) ==
    [ endpoint |-> "list", status_code |-> http.status_code,
      detail |-> http.detail, body |-> http.body, query |-> query ]

\* GET /api/clients?page=..&page_size=..&search=..
GetClients ==
    /\ client_response = NoClientResponse
    /\ \E page \in Pages, page_size \in PageSizes, search \in Searches,
          db_ok \in BOOLEAN :
        \E order \in StoreOrders(Selected(clients, search)) :
            LET got == GetClientsList(clients, order, page, page_size, search, db_ok)
                query == [page |-> page, page_size |-> page_size, search |-> search]
            IN  client_response' =
                  IF got.exc # NoExc THEN ListAnswer(ListErrorResponse(got.exc), query)
                  ELSE ListAnswer(Success(200, Some([ clients |-> got.clients,
                                                      total |-> got.total,
                                                      page |-> got.page,
                                                      page_size |-> got.page_size ])),
                                  query)
    /\ UNCHANGED << clients, next_client_id, create_call, pipeline_and_gen_vars >>

NextList == GetClients

SpecList == InitList /\ [][NextList]_vars


\* ----------------------------------------------------------------- claims
HasRun(r) == pipeline_run_id[r] # None
RunOf(r) == runs[pipeline_run_id[r][1]]
Raised(r) == generation[r].exc

\* how many events of trace[r] are calls of `call` with an outcome in oks
Calls(r, call, oks) ==
    Cardinality({ i \in DOMAIN trace[r] : trace[r][i].call = call /\ trace[r][i].ok \in oks })

Creates(r) == Calls(r, "create_pipeline_run", {TRUE})
UpdateCalls(r) == Calls(r, "update_pipeline_run", BOOLEAN)
TerminalWrites(r) == Calls(r, "update_pipeline_run", {TRUE})
GatewayCalls(r) == Calls(r, "call_openrouter", BOOLEAN)
Terminal == {"completed", "failed"}

\* C1: a run's status changes only from pending to completed or from pending
\* to failed; a completed or failed run never changes status again, whichever
\* request takes the step; rows are inserted as pending and never removed.
C1_StatusOnlyPendingToTerminal ==
    [][ /\ DOMAIN runs \subseteq DOMAIN runs'
        /\ \A i \in DOMAIN runs' \ DOMAIN runs : runs'[i].status = "pending"
        /\ \A i \in DOMAIN runs :
              runs'[i].status # runs[i].status =>
                  runs[i].status = "pending" /\ runs'[i].status \in Terminal ]_vars

C1_Witness ==
    \E r1, r2 \in Requests :
        /\ pc[r1] = "done" /\ HasRun(r1) /\ RunOf(r1).status = "completed"
        /\ pc[r2] = "done" /\ HasRun(r2) /\ RunOf(r2).status = "failed"

\* C2 (as claimed): every request that created a run has made exactly one
\* creating write and exactly one write moving the run to completed or failed
\* by the time it ends.
C2_ExactlyOneTerminalWrite ==
    \A r \in Requests :
        pc[r] = "done" /\ HasRun(r) => Creates(r) = 1 /\ TerminalWrites(r) = 1

\* C2 (amended): every request that created a run made exactly one creating
\* write and, by the time it ends, exactly one update_pipeline_run call; the
\* run is completed or failed exactly when that call succeeded, and when the
\* call raised the run is still pending and the answer is a 500.
C2_OneCreateOneUpdateCall ==
    \A r \in Requests :
        /\ HasRun(r) <=> Creates(r) = 1
        /\ Creates(r) <= 1 /\ UpdateCalls(r) <= 1
        /\ pc[r] = "done" /\ HasRun(r) =>
              /\ UpdateCalls(r) = 1
              /\ TerminalWrites(r) = 1 <=> RunOf(r).status \in Terminal
              /\ TerminalWrites(r) = 0 =>
                    RunOf(r).status = "pending" /\ response[r].status_code = 500

C2_Witness ==
    \E r1, r2 \in Requests :
        /\ pc[r1] = "done" /\ HasRun(r1) /\ TerminalWrites(r1) = 1
        /\ pc[r2] = "done" /\ HasRun(r2) /\ TerminalWrites(r2) = 0

C4_SuccessStoredAsReturned ==
    \A r \in Requests :
        /\ response[r].status_code = 201 =>
              LET body == response[r].body[1]
              IN  /\ HasRun(r) /\ body.pipeline_run_id = pipeline_run_id[r][1]
                  /\ RunOf(r).status = "completed"
                  /\ RunOf(r).draft_content =
                        Some([ content |-> body.content,
                               quality_score |-> body.quality_score,
                               metadata |-> body.metadata ])
                  /\ RunOf(r).quality_score = Some(body.quality_score)
                  /\ RunOf(r).completed_at # None
        /\ pc[r] = "done" /\ Calls(r, "call_openrouter", {TRUE}) = 1 =>
              /\ UpdateCalls(r) = 1
              /\ TerminalWrites(r) = 1 =>
                    response[r].status_code = 201 /\ RunOf(r).status = "completed"
        /\ pc[r] = "done" /\ HasRun(r) /\ RunOf(r).status # "completed" =>
              response[r].status_code # 201

C4_Witness ==
    \E r \in Requests :
        /\ pc[r] = "done" /\ response[r].status_code = 201
        /\ RunOf(r).status = "completed"


NotFoundExc == Exc("ClientNotFoundError", <<"Client with ID", "not found">>)

\* C5: a request that reads a client id absent from the Store ends at that
\* step with an error answer carrying the not-found message (or the Store's
\* own failure, when the read itself failed), with no run inserted, no
\* pipeline_run_id and no Store write or gateway call made; and a request
\* that has ended makes no further write or call.
C5_AbsentClientNoRunNoCall ==
    [][ \A r \in Requests :
          /\ ( /\ pc[r] = "get_client"
               /\ pc'[r] # "get_client"
               /\ request[r].client_id \notin DOMAIN clients )
              => /\ pc'[r] = "done"
                 /\ response'[r] \in
                        { HTTPException(500, <<"Database error">> \o NotFoundExc.msg),
                          HTTPException(500, <<"Database error", "Failed to get client by ID">>) }
                 /\ IsInstance(generation'[r].exc, "DatabaseError")
                 /\ runs' = runs
                 /\ pipeline_run_id'[r] = None
                 /\ trace'[r] = <<>>
          /\ pc[r] = "done"
              => /\ pc'[r] = "done"
                 /\ trace'[r] = trace[r]
                 /\ response'[r] = response[r]
                 /\ pipeline_run_id'[r] = pipeline_run_id[r] ]_vars

C5_Witness ==
    \E r \in Requests :
        /\ pc[r] = "done"
        /\ Raised(r) = NotFoundExc
        /\ response[r].detail = <<"Database error">> \o NotFoundExc.msg
        /\ ~HasRun(r) /\ trace[r] = <<>>

CreateFailedExc == Exc("DatabaseError", <<"Failed to create pipeline run">>)

\* C6: a request whose create_pipeline_run failed has no pipeline_run_id,
\* has made no update_pipeline_run call and no gateway call, and the runs
\* table holds exactly the runs of the requests whose creation succeeded.
C6_CreateFailureNoWriteBack ==
    /\ \A r \in Requests :
          Raised(r) = CreateFailedExc =>
              /\ pc[r] = "done"
              /\ ~HasRun(r)
              /\ trace[r] = <<>>
              /\ response[r] = HTTPException(500, <<"Database error">> \o CreateFailedExc.msg)
    /\ Len(runs) = Cardinality({ r \in Requests : HasRun(r) })
    /\ \A r \in Requests : HasRun(r) => pipeline_run_id[r][1] \in DOMAIN runs

C6_Witness ==
    \E r1, r2 \in Requests :
        /\ Raised(r1) = CreateFailedExc /\ pc[r1] = "done"
        /\ HasRun(r2) /\ Len(runs) = 1

\* the step in which request r inserts its run
Inserts(r) == pipeline_run_id[r] = None /\ pipeline_run_id'[r] # None

\* C7 (as claimed): at the step that inserts a run, the run's client_id is
\* the id of a client in the Store.
C7_ClientExistsAtInsert ==
    [][ \A r \in Requests :
          Inserts(r) => runs'[pipeline_run_id'[r][1]].client_id \in DOMAIN clients ]_vars

\* C7 (amended): at the step that inserts a run, the run's client_id is the
\* id of the profile the request loaded from the Store, and that client is
\* still in the Store unless a delete_client removed it between the
\* request's load and its insert.
C7_ClientLoadedBeforeInsert ==
    [][ \A r \in Requests :
          Inserts(r) =>
              LET run == runs'[pipeline_run_id'[r][1]]
              IN  /\ client_profile[r] # NoProfile
                  /\ run.client_id = client_profile[r].id
                  /\ run.client_id \in DOMAIN clients \/ r \in deleted_since_load ]_vars

C7_Witness ==
    \E r1, r2 \in Requests :
        /\ HasRun(r1) /\ RunOf(r1).client_id \in DOMAIN clients
        /\ r2 \in deleted_since_load

\* C8 (as claimed): the endpoint answers a DuplicateEmailError with 409, a
\* client-not-found error with 404 and any other failure with 500.
C8_ErrorStatusMapping ==
    \A r \in Requests :
        pc[r] = "done" /\ Raised(r) # NoExc =>
            response[r].status_code =
                IF IsInstance(Raised(r), "DuplicateEmailError") THEN 409
                ELSE IF IsInstance(Raised(r), "ClientNotFoundError") THEN 404
                ELSE 500

\* content_type or prompt is empty, or empty after trimming whitespace
Malformed(body) == Strip(body.content_type) = <<>> \/ Strip(body.prompt) = <<>>

\* C9 (as claimed): a request with malformed input never has a run created
\* or updated for it.
C9_MalformedNoSideEffect ==
    \A r \in Requests :
        pc[r] # "idle" /\ Malformed(request[r]) => ~HasRun(r) /\ trace[r] = <<>>

\* C10 (as claimed): a generation request whose content_type or prompt is
\* empty after trimming fails with LangChainError.
C10_BlankFailsWithLangChainError ==
    \A r \in Requests :
        HasRun(r) /\ Malformed(request[r]) => Raised(r).type = "LangChainError"

\* C10 (amended): a generation request whose content_type or prompt is empty
\* after trimming fails when it is constructed, with a validation error (a
\* ValueError, not a LangChainError), and no gateway call is made for it.
C10_BlankFailsWithValidationError ==
    \A r \in Requests :
        HasRun(r) /\ Malformed(request[r]) =>
            /\ GenerationRequest(r).exc # NoExc
            /\ Raised(r) = GenerationRequest(r).exc
            /\ IsInstance(Raised(r), "ValueError")
            /\ ~IsInstance(Raised(r), "LangChainError")
            /\ pc[r] \in {"except", "done"}
            /\ GatewayCalls(r) = 0

C10_Witness ==
    \E r1, r2 \in Requests :
        /\ pc[r1] = "done" /\ HasRun(r1) /\ Strip(request[r1].content_type) = <<>>
        /\ pc[r2] = "done" /\ HasRun(r2) /\ Strip(request[r2].prompt) = <<>>

\* the exception a generate_content call ended with (NoExc: it returned)
GenerateRaised == gen_output.result.exc

\* C11: generate_content raises no exception other than LangChainError; a
\* transport timeout gives one whose message contains 'timed out', a
\* connection failure one whose message contains 'Connection error', and a
\* non-2xx status one whose message carries the response body.
C11_OnlyLangChainError ==
    gen_output.call = "generate" =>
        LET reply == gen_input.reply
        IN  /\ GenerateRaised # NoExc => GenerateRaised.type = "LangChainError"
            /\ reply.kind = "timeout" =>
                  /\ GenerateRaised.type = "LangChainError"
                  /\ Contains(GenerateRaised.msg, <<"timed", "out">>)
            /\ reply.kind = "connect" =>
                  /\ GenerateRaised.type = "LangChainError"
                  /\ Contains(GenerateRaised.msg, <<"Connection", "error">>)
            /\ reply.kind = "http" /\ reply.status_code \notin 200..299 =>
                  /\ GenerateRaised.type = "LangChainError"
                  /\ Contains(GenerateRaised.msg, reply.text)

C11_Witness ==
    /\ gen_output.call = "generate"
    /\ gen_input.reply.kind = "timeout"
    /\ GenerateRaised.type = "LangChainError"
    /\ Contains(GenerateRaised.msg, <<"Request", "timed", "out">>)

\* the response has no non-empty first-choice message content, in one of the
\* ways the claim lists: choices missing or empty, first choice without a
\* message, content missing, null, empty or whitespace-only
LacksContent(json) ==
    \/ "choices" \notin DOMAIN json
    \/ json.choices = <<>>
    \/ /\ ~IsNull(json.choices[1])
       /\ \/ "message" \notin DOMAIN json.choices[1]
          \/ /\ ~IsNull(json.choices[1].message)
             /\ \/ "content" \notin DOMAIN json.choices[1].message
                \/ IsNull(json.choices[1].message.content)
                \/ \A i \in DOMAIN json.choices[1].message.content.str :
                       json.choices[1].message.content.str[i] \in Whitespace

\* C12 (as claimed): every gateway response lacking a non-empty first-choice
\* message content makes generate_content fail with a LangChainError whose
\* message mentions 'Invalid response format'.
C12_NoContentIsInvalidFormat ==
    ( /\ gen_output.call = "generate"
      /\ gen_input.reply.kind = "http" /\ gen_input.reply.status_code = 200
      /\ LacksContent(gen_input.reply.json) )
    => /\ GenerateRaised.type = "LangChainError"
       /\ Contains(GenerateRaised.msg, <<"Invalid", "response", "format">>)

\* C18: _calculate_quality_score returns a score between 0.0 and 10.0 for
\* every content (the empty one included) and profile, and a
\* ContentGenerationResponse is constructed only with a score in that range:
\* the constructor rejects any other.
C18_ScoreWithinRange ==
    /\ gen_output.call = "score" => gen_output.score \in 0..100
    /\ gen_output.call \in {"generate", "response"} /\ gen_output.result.exc = NoExc =>
          gen_output.result.quality_score \in 0..100
    /\ gen_output.call = "response" /\ gen_input.quality_score \notin 0..100 =>
          IsInstance(gen_output.result.exc, "ValueError")

C18_Witness ==
    /\ gen_output.call = "response"
    /\ gen_input.quality_score > 100
    /\ gen_output.result.exc.type = "ValidationError"

\* the heuristic as the specification words it, computed from what the
\* content was made of; in tenths of a point
ReferenceScore(input) ==
    LET n == Len(input.content)
        f == input.features
        total == 50
            + (IF n < 50 THEN -20
               ELSE IF n > 2000 THEN -10
               ELSE IF n >= 100 /\ n <= 1000 THEN 10 ELSE 0)
            + (IF f.industry THEN 10 ELSE 0)
            + (IF f.service # 0 THEN 10 ELSE 0)
            + (IF f.keyword = "key" THEN 5 ELSE 0)
            + (IF f.period THEN 5 ELSE 0)
            + (IF f.newlines >= 2 THEN 5 ELSE 0)
    IN  IF total < 0 THEN 0 ELSE IF total > 100 THEN 100 ELSE total

\* C19: _calculate_quality_score equals the reference heuristic (5.0; minus
\* 2.0 under 50 characters, else minus 1.0 over 2000, else plus 1.0 from 100
\* to 1000; plus 1.0 for the industry, plus 1.0 for any service, plus 0.5
\* for any of the first three positioning words longer than 4 characters,
\* plus 0.5 for a period, plus 0.5 for two newlines; clamped to [0, 10]); a
\* content under 50 characters with no bonus scores exactly 3.0.
C19_ScoreEqualsReference ==
    gen_output.call = "score" =>
        /\ gen_output.score = ReferenceScore(gen_input)
        /\ Len(gen_input.content) < 50 /\ gen_input.features = Plain =>
              gen_output.score = 30

C19_Witness ==
    /\ gen_output.call = "score"
    /\ Len(gen_input.content) = 1000
    /\ gen_input.features = Rich
    /\ gen_output.score = 95

\* C20 (as claimed): the content "Widgets help you grow. \n\nMore widgets."
\* scores 7.0 for the industry "Widgets", with no length adjustment.
C20_WidgetsScoresSeven ==
    gen_output.call = "score" /\ gen_input = WidgetsHelpYouGrowInput =>
        gen_output.score = 70

\* C20 (amended): that content is 38 characters long, under 50, so the
\* length scoring takes 2.0 off and the score is 5.0 - 2.0 + 1.0 + 0.5 + 0.5
\* = 5.0.
C20_WidgetsScoresFive ==
    gen_output.call = "score" /\ gen_input = WidgetsHelpYouGrowInput =>
        /\ Len(gen_input.content) = 38
        /\ LengthScoring(Len(gen_input.content)) = -20
        /\ gen_output.score = 50

C20_Witness ==
    /\ gen_output.call = "score"
    /\ gen_input.content = WidgetsHelpYouGrow
    /\ gen_input.profile.industry = Widgets
    /\ gen_output.score = 50

\* the bonuses a content earns for what it is made of, in tenths of a point
Bonuses(f) ==
    (IF f.industry THEN 10 ELSE 0) + (IF f.service # 0 THEN 10 ELSE 0)
    + (IF f.keyword = "key" THEN 5 ELSE 0) + (IF f.period THEN 5 ELSE 0)
    + (IF f.newlines >= 2 THEN 5 ELSE 0)

\* C21 (as claimed): every content shorter than 50 characters scores
\* strictly below the 5.0 base score, whatever the profile.
C21_ShortScoresBelowBase ==
    gen_output.call = "score" /\ Len(gen_input.content) < 50 =>
        gen_output.score < 50

\* C21 (amended): a content shorter than 50 characters loses 2.0 and keeps
\* its bonuses: it scores 3.0 plus its bonuses, so strictly below 5.0 exactly
\* when the bonuses sum to less than 2.0, and never above 6.5; "Short post."
\* scores 3.5.
C21_ShortScoresThreePlusBonuses ==
    gen_output.call = "score" /\ Len(gen_input.content) < 50 =>
        /\ gen_output.score = 30 + Bonuses(gen_input.features)
        /\ gen_output.score < 50 <=> Bonuses(gen_input.features) < 20
        /\ gen_output.score <= 65
        /\ gen_input.content = ShortPost => gen_output.score = 35

C21_Witness ==
    /\ gen_output.call = "score"
    /\ gen_input.content = ShortPost
    /\ gen_output.score = 35

\* C30: for every content and profile the score before clamping is a
\* multiple of 0.5 between 3.0 and 9.5, so the clamp to [0.0, 10.0] returns
\* it unchanged: no content scores below 3.0 or reaches 10.0.
C30_BeforeClampInHalfSteps ==
    gen_output.call = "score" =>
        /\ gen_output.before_clamp % 5 = 0
        /\ gen_output.before_clamp \in 30..95
        /\ gen_output.score = gen_output.before_clamp

C30_Witness ==
    /\ gen_output.call = "score"
    /\ gen_input.features = Rich
    /\ Len(gen_input.content) = 100
    /\ gen_output.before_clamp = 95
    /\ gen_output.score = 95

\* request r holds a generation_response (not an exception)
Generated(r) == "quality_score" \in DOMAIN generation[r]

InternalServerError == HTTPException(500, <<"An internal server error occurred">>)

\* request r ended with an exception that only the except Exception clause
\* of generate_content catches
Unclassified(r) ==
    pc[r] = "done" /\ Raised(r) # NoExc /\ ExceptClause(Raised(r)) = "Exception"

\* the failed write-back of request r itself raised
WriteBackRaised(r) ==
    trace[r] # <<>> /\ trace[r][Len(trace[r])] = Event("update_pipeline_run", FALSE)

\* exceptions that are none of the classified domain errors
UnclassifiedExceptions ==
    { Exc("Exception", <<"Database connection failed">>),
      Exc("ValidationError", <<"Prompt cannot be empty">>),
      Exc("AttributeError", NoneTypeHasNo("get")) }

\* C23 (as claimed): a request that fails with an exception that is none of
\* the classified domain errors is answered 500 with the fixed detail "An
\* internal server error occurred".
C23_UnclassifiedGetsFixedDetail ==
    \A r \in Requests : Unclassified(r) => response[r] = InternalServerError

\* C23 (amended): such a request is answered 500 with the fixed detail when
\* its failed write-back succeeds, and with the framework's own 500 "Internal
\* Server Error" when the write-back itself raises; neither text depends on
\* the exception's message, so two requests failing with different
\* unclassified exceptions whose write-backs fared the same get identical
\* answers. The intake endpoint's last clause answers any unclassified
\* exception with the fixed detail (a property of the mapping alone, which
\* is evaluated before any request is received).
C23_UnclassifiedGetsMessageFreeAnswer ==
    [](
        /\ \A r \in Requests :
              Unclassified(r) =>
                  response[r] = IF WriteBackRaised(r) THEN UnhandledResponse
                                ELSE InternalServerError
        /\ \A r, q \in Requests :
              Unclassified(r) /\ Unclassified(q) /\ (WriteBackRaised(r) <=> WriteBackRaised(q))
                  => response[r] = response[q]
        /\ (\A r \in Requests : pc[r] = "idle") =>
              \A e \in UnclassifiedExceptions :
                  /\ PipelineErrorResponse(e) = InternalServerError
                  /\ IntakeErrorResponse(e) = InternalServerError
    )

C23_Witness ==
    /\ \A r \in Requests : Unclassified(r) /\ ~WriteBackRaised(r)
    /\ Raised(1).msg # Raised(2).msg
    /\ response[1] = InternalServerError
    /\ response[2] = InternalServerError

\* the positions in trace[r] of the calls of `call`
Positions(r, call) == { i \in DOMAIN trace[r] : trace[r][i].call = call }

GatewayFailed(r) ==
    \E i \in DOMAIN trace[r] : trace[r][i] = Event("call_openrouter", FALSE)

\* C25: a request issues at most one gateway call; when that call fails the
\* whole generation fails with LangChainError, no second call is made, no
\* content is returned and the request is answered 500.
C25_AtMostOneGatewayCall ==
    [](
        \A r \in Requests :
            /\ GatewayCalls(r) <= 1
            /\ GatewayFailed(r) =>
                  /\ pc[r] \in {"except", "done"}
                  /\ IsInstance(Raised(r), "LangChainError")
                  /\ ~Generated(r)
                  /\ pc[r] = "done" => response[r].status_code = 500 /\ response[r].body = None
    )

C25_Witness ==
    \E r \in Requests :
        /\ pc[r] = "done"
        /\ GatewayFailed(r)
        /\ GatewayCalls(r) = 1
        /\ Contains(Raised(r).msg, <<"timed", "out">>)
        /\ RunOf(r).status = "failed"

\* C29: a step of a pipeline request changes nothing in the Store but the
\* one run the request created: the clients table is left as it is, no run
\* is removed, at most one run is added, a run that changes is the stepping
\* request's own, and its client_id and input snapshot stay as they were.
C29_PipelineTouchesOnlyItsRun ==
    [][ \A r \in Requests :
            pc'[r] # pc[r] =>
                /\ clients' = clients
                /\ Len(runs') \in {Len(runs), Len(runs) + 1}
                /\ Len(runs') = Len(runs) + 1 =>
                      pipeline_run_id[r] = None /\ pipeline_run_id'[r] = Some(Len(runs'))
                /\ \A i \in DOMAIN runs :
                      /\ runs'[i].client_id = runs[i].client_id
                      /\ runs'[i].input_data = runs[i].input_data
                      /\ runs'[i] # runs[i] => pipeline_run_id[r] = Some(i)
      ]_vars

\* both requests created a run for the same client, one was written
\* completed and the other failed, each keeping its own input snapshot
C29_Witness ==
    /\ Len(runs) = 2
    /\ pipeline_run_id[1] = Some(1) /\ pipeline_run_id[2] = Some(2)
    /\ runs[1].status = "completed" /\ runs[2].status = "failed"
    /\ runs[1].client_id = runs[2].client_id
    /\ runs[1].input_data.content_type = request[1].content_type
    /\ runs[2].input_data.content_type = request[2].content_type
    /\ request[1] # request[2]

\* C27 (as claimed): once a request has returned to its caller, the run it
\* created is completed or failed, also when the Store write of the terminal
\* status failed.
C27_NoRunPendingAfterEnd ==
    \A r \in Requests :
        pc[r] = "done" /\ HasRun(r) => RunOf(r).status \in Terminal

\* C27 (amended): every request that was received returns to its caller in
\* the end; by then the run it created is completed or failed exactly when
\* its update_pipeline_run call succeeded, and is still pending when that
\* call raised.
C27_RequestsEndRunsTerminalWhenWritten ==
    /\ \A r \in Requests : (pc[r] # "idle") ~> (pc[r] = "done")
    /\ [](\A r \in Requests :
            pc[r] = "done" /\ HasRun(r) =>
                /\ UpdateCalls(r) = 1
                /\ TerminalWrites(r) = 1 <=> RunOf(r).status \in Terminal
                /\ TerminalWrites(r) = 0 <=> RunOf(r).status = "pending")

\* a request has returned after its generation failed and its failed
\* write-back raised: its run is still pending
C27_Witness ==
    \E r \in Requests :
        /\ pc[r] = "done"
        /\ HasRun(r)
        /\ GatewayFailed(r)
        /\ WriteBackRaised(r)
        /\ RunOf(r).status = "pending"
        /\ response[r] = UnhandledResponse

\* C13 (as claimed): whatever Store operations have run (create_client,
\* update_client with any partial update, delete_client), no two stored
\* client profiles share an email.
C13_EmailUnique ==
    \A i, j \in DOMAIN clients : i # j => clients[i].email # clients[j].email

EmailStored(email) == \E i \in DOMAIN clients : clients[i].email = email

DuplicateEmail == Exc("DuplicateEmailError", <<"Client with email", "already exists">>)

\* C14: a create_client call made while no other create is in flight, for
\* an email a stored profile has, ends at its lookup: it inserts nothing and
\* leaves the Store as it was, and the intake endpoint answers 409 with the
\* DuplicateEmailError's message (or 500 when the lookup itself failed).
C14_DuplicateEmailRejected ==
    [][ \A k \in Creators, intake_request \in ClientIntakeRequests, db_ok \in BOOLEAN :
          ( /\ Inserting = {}
            /\ create_call[k].pc = "idle"
            /\ EmailStored(intake_request.email)
            /\ CreateClientLookupOf(k, intake_request, db_ok) )
          => /\ clients' = clients /\ runs' = runs
             /\ next_client_id' = next_client_id
             /\ Inserting' = {}
             /\ client_response' =
                   IF db_ok THEN Answer("intake", HTTPException(409, DuplicateEmail.msg))
                   ELSE Answer("intake", HTTPException(500,
                            <<"Database error", "Failed to get client by email">>)) ]_vars

C14_Witness ==
    /\ client_response = Answer("intake", HTTPException(409, DuplicateEmail.msg))
    /\ EmailStored(EmailW)
    /\ Inserting = {}

\* C15: update_client and delete_client called with an id no stored client
\* has leave every client profile and every pipeline run unchanged, and the
\* endpoints answer 404 with the ClientNotFoundError's message (or 500 when
\* the Store call itself failed).
C15_AbsentIdNotFound ==
    [][ \A c \in StoreClientIds, db_ok \in BOOLEAN :
          /\ ( /\ c \notin DOMAIN clients
               /\ client_response'.endpoint = "update"
               /\ \E u \in ClientProfileUpdates, now \in Timestamps :
                     UpdateClientProfileOf(c, u, now, db_ok) )
             => /\ clients' = clients /\ runs' = runs
                /\ client_response' =
                      IF db_ok THEN Answer("update", HTTPException(404, NotFoundExc.msg))
                      ELSE Answer("update", HTTPException(500,
                               <<"Database error", "Failed to update client">>))
          /\ ( /\ c \notin DOMAIN clients
               /\ client_response'.endpoint = "delete"
               /\ DeleteClientProfileOf(c, db_ok) )
             => /\ clients' = clients /\ runs' = runs
                /\ client_response' =
                      IF db_ok THEN Answer("delete", HTTPException(404, NotFoundExc.msg))
                      ELSE Answer("delete", HTTPException(500,
                               <<"Database error", "Failed to delete client">>)) ]_vars

C15_Witness ==
    /\ client_response = Answer("delete", HTTPException(404, NotFoundExc.msg))
    /\ DOMAIN clients # {}
    /\ runs = << StoredRun >>

\* the fields an update body provides
Provided(update_data) == { f \in DOMAIN update_data : update_data[f] # None }

\* C16: an update_client that succeeds on a stored client sets each field
\* the update provides to the provided value and updated_at to the time of
\* the update, keeps every other field of that client, and changes no other
\* client.
C16_UpdateChangesProvidedFields ==
    [][ \A c \in StoreClientIds, u \in ClientProfileUpdates, now \in Timestamps :
          ( /\ c \in DOMAIN clients
            /\ client_response' = Answer("update", Success(200, Some([id |-> c])))
            /\ UpdateClientProfileOf(c, u, now, TRUE) )
          => /\ DOMAIN clients' = DOMAIN clients
             /\ \A i \in DOMAIN clients \ {c} : clients'[i] = clients[i]
             /\ \A f \in DOMAIN clients[c] :
                   clients'[c][f] =
                       IF f \in Provided(u) THEN u[f][1]
                       ELSE IF f = "updated_at" THEN now
                       ELSE clients[c][f]
             /\ runs' = runs ]_vars

C16_Witness ==
    \E c \in DOMAIN clients :
        /\ client_response = Answer("update", Success(200, Some([id |-> c])))
        /\ clients[c].status = "inactive"
        /\ clients[c].positioning_statement = StoryFirst
        /\ clients[c].email = InitialProfile(c).email
        /\ clients[c].updated_at \in Timestamps

\* C17 (as claimed): get_clients_list(page, page_size, search) returns the
\* clients at positions (page-1)*page_size to page*page_size-1 of the
\* matching clients in creation order, and total is the number of all
\* matching clients.
C17_PageInCreationOrder ==
    client_response.endpoint = "list" /\ client_response.status_code = 200 =>
        LET q == client_response.query
            matching == CreationOrder(Selected(clients, q.search))
            from == (q.page - 1) * q.page_size
            to == Min(q.page * q.page_size, Len(matching))
        IN  /\ client_response.body[1].clients = SubSeq(matching, from + 1, to)
            /\ client_response.body[1].total = Len(matching)

\* C26: create_client's insert looks at nothing the lookup looked at. A call
\* that has passed its lookup stores its row and is answered 201 whenever
\* the Store call succeeds, also when another call has stored the same email
\* since the lookup; the rows already stored stay, and the insert is never
\* answered 409. So two calls with one email whose lookups both precede
\* both inserts leave two profiles with that email.
C26_InsertIgnoresStoredEmail ==
    [][ \A k \in Creators, now \in Timestamps :
            /\ (client_response'.endpoint = "intake" /\ create_call[k].pc = "insert"
                    /\ create_call'[k].pc = "idle")
               => client_response'.status_code \in {201, 500}
            /\ (client_response'.endpoint = "intake" /\ CreateClientInsertOf(k, now, TRUE))
               => /\ client_response'.status_code = 201
                  /\ DOMAIN clients' = DOMAIN clients \cup {next_client_id}
                  /\ next_client_id \notin DOMAIN clients
                  /\ clients'[next_client_id].email = create_call[k].intake_request.email
                  /\ \A i \in DOMAIN clients : clients'[i] = clients[i]
      ]_vars

\* both callers sent the form with the new email, both lookups found
\* nothing, both inserts were performed: two profiles share the email
C26_Witness ==
    /\ \A k \in Creators : create_call[k].pc = "idle"
    /\ {3, 4} \subseteq DOMAIN clients
    /\ clients[3].email = EmailG /\ clients[4].email = EmailG
    /\ client_response = Answer("intake", Success(201, Some([id |-> 4])))

====
